---------------------------- MODULE Spec2Model ----------------------------
(***************************************************************************)
(* A model of mcp_tool_viewer: the MCP client (src/src/mcp_client.py), the *)
(* OpenAPI converter (src/src/openapi_converter.py), the Swagger page      *)
(* generator (src/src/swagger_generator.py) and the Streamlit button       *)
(* handler (src/main.py).                                                  *)
(*                                                                         *)
(* Text.  A Python str is a sequence of atoms.  An atom is a chunk of      *)
(* literal characters; the characters that json.dumps escapes (the double  *)
(* quote and the backslash) are always atoms of their own, and so is the   *)
(* HTML end tag "</script>", so that escaping and the HTML tokenizer can   *)
(* be computed atom by atom.                                               *)
(*                                                                         *)
(* Values.  A Python / JSON value is a tagged record: None, a str, a bool, *)
(* a list, or a dict.  A dict is the sequence of its <<key, value>> pairs  *)
(* in insertion order, as Python dicts keep it.                            *)
(***************************************************************************)
EXTENDS Integers, Sequences, FiniteSets, TLC

\* The pipeline on one catalog: the stage reached, the server's label, the
\* provider's tool objects, and the outputs of normalize_tool_info,
\* convert_tools_to_openapi and generate_swagger_html.
VARIABLES pStage, pServer, pTools, pNormalized, pSpec, pHtml

\* Per caller: the control point, the entry point used, the configuration
\* read by the handler, the arguments of get_normalized_tools, the
\* transport's kind and state, the session's state, the awaits done so far,
\* the exception in flight, the call's outcome, and what the page shows.
\* Shared: st.cache_data's entries and compute locks.  History: whether a
\* session found the lock taken and whether a fetch it waited for raised
\* (both kept from the look-up until the session fetches or renders), and
\* the kinds of error direct calls have raised.
VARIABLES pc, entry, cfg, params, tkind, transport, session, log, exc,
          result, ui, cache, lock, waiting, sawFailure, seen

pvars == <<pStage, pServer, pTools, pNormalized, pSpec, pHtml>>

cvars == <<pc, entry, cfg, params, tkind, transport, session, log, exc,
           result, ui, cache, lock, waiting, sawFailure, seen>>

vars == <<pStage, pServer, pTools, pNormalized, pSpec, pHtml,
          pc, entry, cfg, params, tkind, transport, session, log, exc,
          result, ui, cache, lock, waiting, sawFailure, seen>>

T(a) == <<a>>

PyNone == [t |-> "none"]
PyStr(s) == [t |-> "str", s |-> s]
PyBool(b) == [t |-> "bool", b |-> b]
PyList(xs) == [t |-> "list", xs |-> xs]
PyDict(kv) == [t |-> "dict", kv |-> kv]

\* bool(x) for the values the client sees: None, '' and {} are falsy.
Truthy(v) ==
    CASE v.t = "none" -> FALSE
      [] v.t = "str" -> v.s # <<>>
      [] v.t = "dict" -> v.kv # <<>>
      [] v.t = "list" -> v.xs # <<>>
      [] v.t = "bool" -> v.b

\* x or y
PyOr(x, y) == IF Truthy(x) THEN x ELSE y

DictKeys(d) == [i \in 1..Len(d.kv) |-> d.kv[i][1]]

DictHas(d, k) == \E i \in 1..Len(d.kv) : d.kv[i][1] = k

\* d[k] for a key that is present
DictIndex(d, k) == d.kv[CHOOSE i \in 1..Len(d.kv) : d.kv[i][1] = k][2]

\* d.get(k, default)
DictGet(d, k, default) == IF DictHas(d, k) THEN DictIndex(d, k) ELSE default

\* d[k] = v: an existing key keeps its place and takes the new value, a new
\* key is appended.
DictSet(d, k, v) ==
    IF DictHas(d, k)
    THEN PyDict([i \in 1..Len(d.kv) |->
                    IF d.kv[i][1] = k THEN <<k, v>> ELSE d.kv[i]])
    ELSE PyDict(Append(d.kv, <<k, v>>))

----------------------------------------------------------------------------
(* src/src/mcp_client.py: normalize_tool_info *)

\* The loop body without the `or ""`: an absent description stays None.
NormalizeToolKeepNone(tool) ==
    PyDict(<< <<T("name"), PyStr(tool.name)>>,
              <<T("description"), tool.description>>,
              <<T("inputSchema"), PyOr(tool.inputSchema, PyDict(<<>>))>> >>)

\* One iteration of the loop: the dict built for one provider tool object.
NormalizeTool(tool) ==
    PyDict(<< <<T("name"), PyStr(tool.name)>>,
              <<T("description"), PyOr(tool.description, PyStr(<<>>))>>,
              <<T("inputSchema"), PyOr(tool.inputSchema, PyDict(<<>>))>> >>)

normalize_tool_info(tools) == [i \in 1..Len(tools) |-> NormalizeTool(tools[i])]

----------------------------------------------------------------------------
(* src/src/openapi_converter.py *)

create_openapi_spec(server_name, tools) ==
    PyDict(<<
      <<T("openapi"), PyStr(T("3.0.3"))>>,
      <<T("info"), PyDict(<<
          <<T("title"), PyStr(server_name \o T(" Tools"))>>,
          <<T("description"),
            PyStr(T("API documentation for ") \o server_name \o T(" MCP tools"))>>,
          <<T("version"), PyStr(T("1.0.0"))>> >>)>>,
      <<T("servers"), PyList(<< PyDict(<<
          <<T("url"), PyStr(T("http://localhost:8000"))>>,
          <<T("description"), PyStr(T("MCP Server"))>> >>) >>)>>,
      <<T("paths"), PyDict(<<>>)>>,
      <<T("components"), PyDict(<< <<T("schemas"), PyDict(<<>>)>> >>)>> >>)

ResponseSchema ==
    PyDict(<<
      <<T("type"), PyStr(T("object"))>>,
      <<T("properties"), PyDict(<<
          <<T("result"), PyDict(<<
              <<T("type"), PyStr(T("string"))>>,
              <<T("description"), PyStr(T("Tool execution result"))>> >>)>> >>)>> >>)

Responses ==
    PyDict(<< <<T("200"), PyDict(<<
        <<T("description"), PyStr(T("Tool execution result"))>>,
        <<T("content"), PyDict(<<
            <<T("application/json"), PyDict(<<
                <<T("schema"), ResponseSchema>> >>)>> >>)>> >>)>> >>)

RequestSchema(input_schema) ==
    PyDict(<<
      <<T("type"), PyStr(T("object"))>>,
      <<T("properties"), DictGet(input_schema, T("properties"), PyDict(<<>>))>>,
      <<T("required"), DictGet(input_schema, T("required"), PyList(<<>>))>> >>)

tool_to_path_item(tool) ==
    LET tool_name == DictIndex(tool, T("name"))
        description == DictIndex(tool, T("description"))
        input_schema == DictGet(tool, T("inputSchema"), PyDict(<<>>))
    IN PyDict(<< <<T("post"), PyDict(<<
          <<T("summary"), tool_name>>,
          <<T("description"), description>>,
          <<T("operationId"), tool_name>>,
          <<T("requestBody"), PyDict(<<
              <<T("required"), PyBool(TRUE)>>,
              <<T("content"), PyDict(<<
                  <<T("application/json"), PyDict(<<
                      <<T("schema"), RequestSchema(input_schema)>> >>)>> >>)>> >>)>>,
          <<T("responses"), Responses>> >>)>> >>)

\* f"/{tool['name']}"
PathKey(tool) == T("/") \o DictIndex(tool, T("name")).s

\* A store that keeps the first path item of a key (setdefault).
StorePathKeepFirst(openapi_spec, key, path_item) ==
    IF DictHas(DictIndex(openapi_spec, T("paths")), key) THEN openapi_spec
    ELSE DictSet(openapi_spec, T("paths"),
                 DictSet(DictIndex(openapi_spec, T("paths")), key, path_item))

\* openapi_spec["paths"][key] = path_item
StorePath(openapi_spec, key, path_item) ==
    DictSet(openapi_spec, T("paths"),
            DictSet(DictIndex(openapi_spec, T("paths")), key, path_item))

\* The document after the first n iterations of the loop over tools.
RECURSIVE ConvertLoop(_, _, _)
ConvertLoop(openapi_spec, tools, n) ==
    IF n = 0 THEN openapi_spec
    ELSE StorePath(ConvertLoop(openapi_spec, tools, n - 1),
                   PathKey(tools[n]), tool_to_path_item(tools[n]))

convert_tools_to_openapi(tools, server_name) ==
    ConvertLoop(create_openapi_spec(server_name, tools), tools, Len(tools))

----------------------------------------------------------------------------
(* json.dumps(openapi_spec, indent=2), as src/src/swagger_generator.py     *)
(* line 20 calls it.                                                       *)

QUOTE == "\""
BACKSLASH == "\\"
NEWLINE == "\n"
SCRIPT_END == "</script>"

\* The encoder's escape of one atom of a str: the double quote and the
\* backslash get a backslash in front, every other atom of the model is
\* printable ASCII and is copied ('<', '/' and '>' among them).
EscapeAtom(a) ==
    IF a = QUOTE THEN <<BACKSLASH, QUOTE>>
    ELSE IF a = BACKSLASH THEN <<BACKSLASH, BACKSLASH>>
    ELSE <<a>>

RECURSIVE EscapeText(_)
EscapeText(s) ==
    IF s = <<>> THEN <<>> ELSE EscapeAtom(Head(s)) \o EscapeText(Tail(s))

EncodeStr(s) == <<QUOTE>> \o EscapeText(s) \o <<QUOTE>>

\* " " * n, one atom per space
RECURSIVE Spaces(_)
Spaces(n) == IF n = 0 THEN <<>> ELSE <<" ">> \o Spaces(n - 1)

\* The encoder's line break: "\n" + " " * (indent * level) with indent=2,
\* nothing without indent.
NewlineIndent(level, indented) ==
    IF indented THEN <<NEWLINE>> \o Spaces(2 * level) ELSE <<>>

\* The item separator: "," with indent (the line break follows), ", "
\* without.
ItemSeparator(indented) == IF indented THEN <<",">> ELSE <<",", " ">>

RECURSIVE Encode(_, _, _)
RECURSIVE EncodeItems(_, _, _, _)
RECURSIVE EncodeElems(_, _, _, _)

\* The members of a dict from the i-th on.
EncodeItems(kv, i, level, indented) ==
    IF i > Len(kv) THEN <<>>
    ELSE (IF i > 1 THEN ItemSeparator(indented) ELSE <<>>)
         \o NewlineIndent(level, indented)
         \o EncodeStr(kv[i][1]) \o <<":", " ">>
         \o Encode(kv[i][2], level, indented)
         \o EncodeItems(kv, i + 1, level, indented)

EncodeElems(xs, i, level, indented) ==
    IF i > Len(xs) THEN <<>>
    ELSE (IF i > 1 THEN ItemSeparator(indented) ELSE <<>>)
         \o NewlineIndent(level, indented)
         \o Encode(xs[i], level, indented)
         \o EncodeElems(xs, i + 1, level, indented)

Encode(v, level, indented) ==
    CASE v.t = "none" -> <<"null">>
      [] v.t = "bool" -> IF v.b THEN <<"true">> ELSE <<"false">>
      [] v.t = "str" -> EncodeStr(v.s)
      [] v.t = "list" ->
           IF v.xs = <<>> THEN <<"[", "]">>
           ELSE <<"[">> \o EncodeElems(v.xs, 1, level + 1, indented)
                \o NewlineIndent(level, indented) \o <<"]">>
      [] v.t = "dict" ->
           IF v.kv = <<>> THEN <<"{", "}">>
           ELSE <<"{">> \o EncodeItems(v.kv, 1, level + 1, indented)
                \o NewlineIndent(level, indented) \o <<"}">>

\* json.dumps(v, indent=2)
JsonDumps(v) == Encode(v, 0, TRUE)

\* json.dumps(v)
JsonDumpsCompact(v) == Encode(v, 0, FALSE)

----------------------------------------------------------------------------
(* src/src/swagger_generator.py: the f-string of create_html_template      *)

HTML_HEAD_OPEN == "<!DOCTYPE html><html><head><title>"
HTML_HEAD_REST == "</title><meta/><meta/><link/><style>...</style></head><body><div id=swagger-ui></div>"
SCRIPT_SRC_BUNDLE == "<script src=swagger-ui-bundle.js>"
SCRIPT_SRC_PRESET == "<script src=swagger-ui-standalone-preset.js>"
SCRIPT_OPEN == "<script>"
ONLOAD_OPEN == "window.onload = function() {"
CONST_SPEC == "const spec = "
SEMICOLON == ";"
ONLOAD_REST == "const ui = SwaggerUIBundle({spec: spec, ...}); };"
HTML_TAIL == "</body></html>"

\* What the template writes between <script> and </script>.
ScriptText(openapi_json) ==
    <<ONLOAD_OPEN, CONST_SPEC>> \o openapi_json \o <<SEMICOLON, ONLOAD_REST>>

create_html_template(openapi_spec, title) ==
    LET openapi_json == JsonDumps(openapi_spec)
    IN <<HTML_HEAD_OPEN>> \o title \o
       <<HTML_HEAD_REST,
         SCRIPT_SRC_BUNDLE, SCRIPT_END,
         SCRIPT_SRC_PRESET, SCRIPT_END,
         SCRIPT_OPEN>> \o ScriptText(openapi_json) \o <<SCRIPT_END, HTML_TAIL>>

generate_swagger_html(openapi_spec, title) ==
    create_html_template(openapi_spec, title)

----------------------------------------------------------------------------
(* The readers of JSON text: json.loads (main.py line 126), and the reader *)
(* of the page, that is the HTML tokenizer that cuts the page into script  *)
(* elements and the script engine that evaluates the literal after         *)
(* "const spec = " (swagger_generator.py lines 46-50 and 66).              *)

Whitespace == {" ", NEWLINE}

ScriptOpenTags == {SCRIPT_SRC_BUNDLE, SCRIPT_SRC_PRESET, SCRIPT_OPEN}

\* The least element of a non-empty set of indexes.
MinOf(S) == CHOOSE j \in S : \A k \in S : j <= k

\* Index of the first "</script>" at or after i, Len + 1 if there is none:
\* script data ends at the first end tag, whatever the script's text means.
ScriptDataEnd(page, i) ==
    LET ends == { j \in i..Len(page) : page[j] = SCRIPT_END }
    IN IF ends = {} THEN Len(page) + 1 ELSE MinOf(ends)

\* Index of the first script start tag at or after i, 0 if there is none.
NextScriptOpen(page, i) ==
    LET opens == { j \in i..Len(page) : page[j] \in ScriptOpenTags }
    IN IF opens = {} THEN 0 ELSE MinOf(opens)

\* The texts of the script elements of the page from index i on, in order.
RECURSIVE ScriptBlocks(_, _)
ScriptBlocks(page, i) ==
    LET o == NextScriptOpen(page, i)
    IN IF o = 0 THEN <<>>
       ELSE LET e == ScriptDataEnd(page, o + 1)
            IN <<SubSeq(page, o + 1, e - 1)>> \o ScriptBlocks(page, e + 1)

ParseFail == [ok |-> FALSE, val |-> PyNone, next |-> 0]
ParseOk(v, n) == [ok |-> TRUE, val |-> v, next |-> n]

RECURSIVE SkipWs(_, _)
SkipWs(s, i) ==
    IF i <= Len(s) /\ s[i] \in Whitespace THEN SkipWs(s, i + 1) ELSE i

\* The characters of a string literal from index i (after the opening
\* quote) to its closing quote; a backslash takes the next atom literally.
RECURSIVE ParseChars(_, _, _)
ParseChars(s, i, acc) ==
    IF i > Len(s) \/ s[i] = NEWLINE THEN ParseFail
    ELSE IF s[i] = QUOTE THEN ParseOk(PyStr(acc), i + 1)
    ELSE IF s[i] = BACKSLASH
         THEN IF i + 1 <= Len(s) /\ s[i + 1] \in {QUOTE, BACKSLASH}
              THEN ParseChars(s, i + 2, Append(acc, s[i + 1]))
              ELSE ParseFail
    ELSE ParseChars(s, i + 1, Append(acc, s[i]))

RECURSIVE ParseValue(_, _)
RECURSIVE ParseMembers(_, _, _)
RECURSIVE ParseElems(_, _, _)

\* The members of an object literal, i at the first key or at "}".
ParseMembers(s, i, acc) ==
    LET j == SkipWs(s, i)
    IN IF j > Len(s) THEN ParseFail
       ELSE IF s[j] = "}" /\ acc = <<>> THEN ParseOk(PyDict(acc), j + 1)
       ELSE IF s[j] # QUOTE THEN ParseFail
       ELSE LET k == ParseChars(s, j + 1, <<>>)
            IN IF ~k.ok THEN ParseFail
               ELSE LET c == SkipWs(s, k.next)
                    IN IF c > Len(s) \/ s[c] # ":" THEN ParseFail
                       ELSE LET v == ParseValue(s, c + 1)
                            IN IF ~v.ok THEN ParseFail
                               ELSE LET e == SkipWs(s, v.next)
                                        kv == Append(acc, <<k.val.s, v.val>>)
                                    IN IF e > Len(s) THEN ParseFail
                                       ELSE IF s[e] = "}"
                                            THEN ParseOk(PyDict(kv), e + 1)
                                       ELSE IF s[e] = ","
                                            THEN ParseMembers(s, e + 1, kv)
                                       ELSE ParseFail

ParseElems(s, i, acc) ==
    LET j == SkipWs(s, i)
    IN IF j > Len(s) THEN ParseFail
       ELSE IF s[j] = "]" /\ acc = <<>> THEN ParseOk(PyList(acc), j + 1)
       ELSE LET v == ParseValue(s, j)
            IN IF ~v.ok THEN ParseFail
               ELSE LET e == SkipWs(s, v.next)
                        xs == Append(acc, v.val)
                    IN IF e > Len(s) THEN ParseFail
                       ELSE IF s[e] = "]" THEN ParseOk(PyList(xs), e + 1)
                       ELSE IF s[e] = "," THEN ParseElems(s, e + 1, xs)
                       ELSE ParseFail

ParseValue(s, i) ==
    LET j == SkipWs(s, i)
    IN IF j > Len(s) THEN ParseFail
       ELSE CASE s[j] = QUOTE -> ParseChars(s, j + 1, <<>>)
              [] s[j] = "{" -> ParseMembers(s, j + 1, <<>>)
              [] s[j] = "[" -> ParseElems(s, j + 1, <<>>)
              [] s[j] = "true" -> ParseOk(PyBool(TRUE), j + 1)
              [] s[j] = "false" -> ParseOk(PyBool(FALSE), j + 1)
              [] s[j] = "null" -> ParseOk(PyNone, j + 1)
              [] OTHER -> ParseFail

\* json.loads(text) of a text json.dumps wrote
JsonLoads(text) == ParseValue(text, 1).val

\* The value a script binds to `spec`: the script must be the text
\* "window.onload = function() { const spec = <literal>; <rest>" in full,
\* or it does not compile and binds nothing.
SpecOfScript(script) ==
    IF Len(script) < 2 \/ script[1] # ONLOAD_OPEN \/ script[2] # CONST_SPEC
    THEN ParseFail
    ELSE LET v == ParseValue(script, 3)
         IN IF ~v.ok THEN ParseFail
            ELSE IF SubSeq(script, v.next, Len(script)) = <<SEMICOLON, ONLOAD_REST>>
                 THEN v
            ELSE ParseFail

\* The documents embedded in the page, one per script that binds one.
EmbeddedDocs(page) ==
    LET blocks == ScriptBlocks(page, 1)
        RECURSIVE Docs(_)
        Docs(i) == IF i > Len(blocks) THEN <<>>
                   ELSE (IF SpecOfScript(blocks[i]).ok
                         THEN <<SpecOfScript(blocks[i]).val>> ELSE <<>>)
                        \o Docs(i + 1)
    IN Docs(1)

----------------------------------------------------------------------------
(* The inputs of the bounded checks: tool objects as a provider reports    *)
(* them (mcp Tool: name, optional description, optional inputSchema).      *)

MsgProperty == PyDict(<< <<T("type"), PyStr(T("string"))>> >>)
MarkupProperty ==
    PyDict(<< <<T("type"), PyStr(T("string"))>>,
              <<T("description"), PyStr(<<"see ", SCRIPT_END>>)>> >>)

SchemaFull ==
    PyDict(<< <<T("properties"), PyDict(<< <<T("msg"), MsgProperty>> >>)>>,
              <<T("required"), PyList(<<PyStr(T("msg"))>>)>> >>)
SchemaPropertiesOnly ==
    PyDict(<< <<T("properties"), PyDict(<< <<T("msg"), MsgProperty>> >>)>> >>)
SchemaRequiredOnly ==
    PyDict(<< <<T("required"), PyList(<<PyStr(T("msg"))>>)>> >>)
SchemaMarkup ==
    PyDict(<< <<T("properties"), PyDict(<< <<T("m"), MarkupProperty>> >>)>> >>)

Tool(name, description, inputSchema) ==
    [name |-> name, description |-> description, inputSchema |-> inputSchema]

ToolPool ==
    { Tool(T("echo"), PyStr(T("Echoes input")), SchemaFull),
      Tool(T("echo"), PyNone, PyNone),
      Tool(T("b"), PyStr(<<>>), SchemaPropertiesOnly),
      Tool(T("b"), PyStr(<<"say ", QUOTE, "hi", QUOTE, " ", BACKSLASH>>),
           SchemaRequiredOnly),
      Tool(T("c"), PyStr(<<"ends ", SCRIPT_END>>), PyDict(<<>>)),
      Tool(<<"x", SCRIPT_END>>, PyStr(T("d")), PyNone),
      Tool(T("m"), PyNone, SchemaMarkup) }

MaxTools == 2

ToolLists == UNION { [1..n -> ToolPool] : n \in 0..MaxTools }

ServerNames == { T("Test"), T("Empty") }

HasScriptEnd(text) == \E i \in 1..Len(text) : text[i] = SCRIPT_END

----------------------------------------------------------------------------
(* The three functions applied in sequence to one catalog, without I/O:    *)
(* normalize_tool_info, convert_tools_to_openapi, generate_swagger_html.   *)

PInit ==
    /\ pStage = "listed"
    /\ pServer \in ServerNames
    /\ pTools \in ToolLists
    /\ pNormalized = <<>>
    /\ pSpec = PyNone
    /\ pHtml = <<>>

\* MCPClient.normalize_tool_info(tools)
PNormalize ==
    /\ pStage = "listed"
    /\ pNormalized' = normalize_tool_info(pTools)
    /\ pStage' = "normalized"
    /\ UNCHANGED <<pServer, pTools, pSpec, pHtml>>
    /\ UNCHANGED cvars

\* OpenAPIConverter.convert_tools_to_openapi(tools, server_name)
PConvert ==
    /\ pStage = "normalized"
    /\ pSpec' = convert_tools_to_openapi(pNormalized, pServer)
    /\ pStage' = "converted"
    /\ UNCHANGED <<pServer, pTools, pNormalized, pHtml>>
    /\ UNCHANGED cvars

\* SwaggerGenerator.generate_swagger_html(openapi_spec, f"{server_name} Tools")
PRender ==
    /\ pStage = "converted"
    /\ pHtml' = generate_swagger_html(pSpec, pServer \o T(" Tools"))
    /\ pStage' = "rendered"
    /\ UNCHANGED <<pServer, pTools, pNormalized, pSpec>>
    /\ UNCHANGED cvars

PNext == PNormalize \/ PConvert \/ PRender

----------------------------------------------------------------------------
(* Claims about the converter and the renderer, checked under SpecPipeline *)

PathsOf(openapi_spec) == DictIndex(openapi_spec, T("paths"))

NameOf(tool) == DictIndex(tool, T("name")).s

NamesOf(tools) == { NameOf(tools[i]) : i \in 1..Len(tools) }

IsLastOfItsName(tools, i) ==
    \A j \in (i + 1)..Len(tools) : NameOf(tools[j]) # NameOf(tools[i])

IsRepeated(tools, i) ==
    \E j \in 1..Len(tools) : j # i /\ NameOf(tools[j]) = NameOf(tools[i])

Converted == pStage \in {"converted", "rendered"}

\* C1: for every non-empty tool list the number of entries of 'paths' is the
\* number of distinct tool names, the keys are the distinct '/<name>', and
\* for a name that occurs more than once the entry at '/<name>' is the path
\* item built from the last tool of that name (last write wins).
C1_PathsCountLastWins ==
    (Converted /\ pNormalized # <<>>) =>
        LET paths == PathsOf(pSpec)
        IN /\ Len(paths.kv) = Cardinality(NamesOf(pNormalized))
           /\ { paths.kv[i][1] : i \in 1..Len(paths.kv) }
                = { T("/") \o n : n \in NamesOf(pNormalized) }
           /\ \A i \in 1..Len(pNormalized) :
                (IsRepeated(pNormalized, i) /\ IsLastOfItsName(pNormalized, i)) =>
                    DictIndex(paths, T("/") \o NameOf(pNormalized[i]))
                      = tool_to_path_item(pNormalized[i])

\* Reached: two different tools of one name were converted to one path.
C1_Witness ==
    /\ pStage = "converted"
    /\ Len(pNormalized) = 2
    /\ NameOf(pNormalized[1]) = NameOf(pNormalized[2])
    /\ tool_to_path_item(pNormalized[1]) # tool_to_path_item(pNormalized[2])
    /\ Len(PathsOf(pSpec).kv) = 1

OperationAt(openapi_spec, name) ==
    DictIndex(DictIndex(PathsOf(openapi_spec), T("/") \o name), T("post"))

RequestBodyOf(op) == DictIndex(op, T("requestBody"))

RequestSchemaOf(op) ==
    DictIndex(DictIndex(DictIndex(RequestBodyOf(op), T("content")),
                        T("application/json")), T("schema"))

\* What the claim expects of a provider tool object's fields.
ExpectedDescription(raw) ==
    IF raw.description.t = "str" THEN raw.description ELSE PyStr(<<>>)

ExpectedSchemaField(raw, key, empty) ==
    IF raw.inputSchema.t = "dict" /\ DictHas(raw.inputSchema, key)
    THEN DictIndex(raw.inputSchema, key) ELSE empty

\* The fields that depend on the tool's name only.
OperationNamed(op, raw) ==
    /\ DictIndex(op, T("summary")) = PyStr(raw.name)
    /\ DictIndex(op, T("operationId")) = PyStr(raw.name)
    /\ DictIndex(op, T("description")).t = "str"
    /\ DictIndex(RequestBodyOf(op), T("required")) = PyBool(TRUE)

OperationConforms(op, raw) ==
    /\ OperationNamed(op, raw)
    /\ DictIndex(op, T("description")) = ExpectedDescription(raw)
    /\ DictIndex(RequestSchemaOf(op), T("properties"))
         = ExpectedSchemaField(raw, T("properties"), PyDict(<<>>))
    /\ DictIndex(RequestSchemaOf(op), T("required"))
         = ExpectedSchemaField(raw, T("required"), PyList(<<>>))

\* C6: for every provider tool, with or without description, inputSchema,
\* properties and required, normalize_tool_info followed by
\* convert_tools_to_openapi stores at '/<name>' an operation whose summary
\* and operationId are the name, whose description is a string ('' when
\* absent or empty), whose request schema has the tool's properties ({} if
\* absent) and required ([] if absent), and whose body is marked required:
\* so for the operation the loop stores for the i-th tool, and so in the
\* final document for every tool that no later tool of the same name
\* replaces (C1); a replaced tool's path still carries its name.
C6_OperationFromTool ==
    Converted =>
        \A i \in 1..Len(pTools) :
            /\ OperationConforms(
                 OperationAt(ConvertLoop(create_openapi_spec(pServer, pNormalized),
                                         pNormalized, i), pTools[i].name),
                 pTools[i])
            /\ OperationNamed(OperationAt(pSpec, pTools[i].name), pTools[i])
            /\ IsLastOfItsName(pNormalized, i) =>
                 OperationConforms(OperationAt(pSpec, pTools[i].name), pTools[i])

\* Reached: a converted catalog holding a tool without description and
\* schema and a tool whose schema has properties but no required.
C6_Witness ==
    /\ pStage = "converted"
    /\ \E i \in 1..Len(pTools) :
         /\ pTools[i].description = PyNone
         /\ pTools[i].inputSchema = PyNone
         /\ DictIndex(OperationAt(pSpec, pTools[i].name), T("description"))
              = PyStr(<<>>)
    /\ \E i \in 1..Len(pTools) :
         /\ pTools[i].inputSchema = SchemaPropertiesOnly
         /\ pTools[i].description = PyStr(<<>>)

\* The script element the template wrote the document into is the third.
DocumentScript(page) == ScriptBlocks(page, 1)[3]

\* C7: the rendered page holds exactly one embedded document, it
\* deserializes to the input ApiDescription, and the embedded text does not
\* end the enclosing script element early, whatever the strings contain.
C7_EmbeddingIsSafe ==
    pStage = "rendered" =>
        /\ Len(EmbeddedDocs(pHtml)) = 1
        /\ EmbeddedDocs(pHtml)[1] = pSpec
        /\ DocumentScript(pHtml) = ScriptText(JsonDumps(pSpec))

----------------------------------------------------------------------------
(* The MCP client (src/src/mcp_client.py) and the button handler of        *)
(* src/main.py.  A caller is one Streamlit session running the script, or  *)
(* one direct user of the MCPClient functions.  Every await is one step    *)
(* whose outcome (success, or the underlying library raising) is chosen    *)
(* by the environment.                                                     *)

NumSessions == 2

Callers == 1..NumSessions

NONE == "<None>"

\* bool(x) of an Optional[str]
IsSet(x) == x \notin {NONE, ""}

\* x or ""
OrEmpty(x) == IF IsSet(x) THEN x ELSE ""

Commands == {NONE, "uvx"}
Urls == {NONE, "http://a"}
ArgLists == {NONE, "[]"}
EnvMaps == {NONE, "{}"}

NoParams == [command |-> NONE, args |-> NONE, env |-> NONE, url |-> NONE]
ParamSets == [command : Commands, args : ArgLists, env : EnvMaps, url : Urls]

\* The text area's content, by what the handler reads from it.
NoConfig == [json |-> "none", command |-> NONE, url |-> NONE]
ServerConfigs ==
    { [json |-> "server", command |-> NONE, url |-> NONE],
      [json |-> "server", command |-> "uvx", url |-> NONE],
      [json |-> "server", command |-> NONE, url |-> "http://a"] }

KeyOf(config) == <<OrEmpty(config.command), OrEmpty(config.url)>>

\* The key st.cache_data derives from get_mcp_tools' arguments; args_str and
\* env_str are the same for every configuration of the model.
CacheKeys ==
    { KeyOf(sc) : sc \in { x \in ServerConfigs : IsSet(x.command) \/ IsSet(x.url) } }

\* The catalog the provider answers list_tools with, and the server's label.
ProviderTools == << Tool(T("echo"), PyStr(T("Echoes input")), SchemaFull) >>
ServerName == T("srv")

\* Exceptions: type, the message's fixed prefix, the text of the exception
\* it was built from, and the exception in flight when it was raised
\* (__context__), by its type.
NoExc == [type |-> "none", prefix |-> "", text |-> "", context |-> "none"]

\* What the mcp library raises at each await.
Cause(stage) ==
    CASE stage = "connect" ->
           [type |-> "OSError", prefix |-> "", text |-> "cannot connect", context |-> "none"]
      [] stage = "session" ->
           [type |-> "OSError", prefix |-> "", text |-> "stream closed", context |-> "none"]
      [] stage = "initialize" ->
           [type |-> "McpError", prefix |-> "", text |-> "initialize rejected", context |-> "none"]
      [] stage = "list_tools" ->
           [type |-> "McpError", prefix |-> "", text |-> "tools/list failed", context |-> "none"]

\* mcp_client.py lines 93-94 and 106-107
GntError(kind, e) ==
    [type |-> "RuntimeError",
     prefix |-> IF kind = "http" THEN "MCP HTTP connection failed: "
                ELSE "MCP stdio connection failed: ",
     text |-> e.text, context |-> e.type]

\* mcp_client.py lines 110-112
GntValueError ==
    [type |-> "ValueError",
     prefix |-> "Either 'url' for HTTP or 'command/args/env' for stdio must be provided",
     text |-> "", context |-> "none"]

\* mcp_client.py lines 49-50
GetToolsError(e) ==
    [type |-> "RuntimeError", prefix |-> "Failed to get tools: ",
     text |-> e.text, context |-> e.type]

\* What a caller can tell errors apart by without reading the cause's text.
ErrorKind(e) == <<e.type, e.prefix>>

NoResult == [kind |-> "none", value |-> <<>>, err |-> NoExc]
Returned(v) == [kind |-> "ok", value |-> v, err |-> NoExc]
Raised(e) == [kind |-> "error", value |-> <<>>, err |-> e]

NoUi == [error |-> "none", exception |-> NoExc, converted |-> FALSE,
         rendered |-> FALSE, page |-> <<>>]

NoEntry == [present |-> FALSE, value |-> <<>>]


CInit ==
    /\ pc = [c \in Callers |-> "idle"]
    /\ entry = [c \in Callers |-> "none"]
    /\ cfg = [c \in Callers |-> NoConfig]
    /\ params = [c \in Callers |-> NoParams]
    /\ tkind = [c \in Callers |-> "none"]
    /\ transport = [c \in Callers |-> "none"]
    /\ session = [c \in Callers |-> "none"]
    /\ log = [c \in Callers |-> <<>>]
    /\ exc = [c \in Callers |-> NoExc]
    /\ result = [c \in Callers |-> NoResult]
    /\ ui = [c \in Callers |-> NoUi]
    /\ cache = [k \in CacheKeys |-> NoEntry]
    /\ lock = [k \in CacheKeys |-> 0]
    /\ waiting = [c \in Callers |-> FALSE]
    /\ sawFailure = [c \in Callers |-> FALSE]
    /\ seen = {}

\* The pipeline variables while the client specifications run, and the
\* client variables while the pipeline specification runs.
POff ==
    /\ pStage = "off"
    /\ pServer = <<>>
    /\ pTools = <<>>
    /\ pNormalized = <<>>
    /\ pSpec = PyNone
    /\ pHtml = <<>>

UnchangedCall ==
    UNCHANGED <<params, tkind, transport, session, log, exc>>
UnchangedCache == UNCHANGED <<cache, lock, waiting, sawFailure>>

----------------------------------------------------------------------------
(* src/main.py: the handler of the "Generate Documentation" button         *)

\* The script run ends by st.stop() or after an except clause: the error is
\* on screen and nothing after the failing statement has run.
ShowError(c, what, e) ==
    /\ ui' = [ui EXCEPT ![c].error = what, ![c].exception = e]
    /\ pc' = [pc EXCEPT ![c] = "done"]

\* lines 52 and 145-146: json.loads raises JSONDecodeError
ClickInvalidJson(c) ==
    /\ pc[c] = "idle"
    /\ entry' = [entry EXCEPT ![c] = "main"]
    /\ cfg' = [cfg EXCEPT ![c] = [NoConfig EXCEPT !.json = "invalid"]]
    /\ ShowError(c, "invalid_json", NoExc)
    /\ UNCHANGED <<result, seen>>
    /\ UnchangedCall /\ UnchangedCache
    /\ UNCHANGED pvars

\* lines 54-56: {} parses, st.stop()
ClickEmptyConfig(c) ==
    /\ pc[c] = "idle"
    /\ entry' = [entry EXCEPT ![c] = "main"]
    /\ cfg' = [cfg EXCEPT ![c] = [NoConfig EXCEPT !.json = "empty"]]
    /\ ShowError(c, "empty_config", NoExc)
    /\ UNCHANGED <<result, seen>>
    /\ UnchangedCall /\ UnchangedCache
    /\ UNCHANGED pvars

\* lines 58-72: neither command nor url, st.stop()
ClickMissingTransport(c) ==
    /\ pc[c] = "idle"
    /\ \E sc \in ServerConfigs :
         /\ ~IsSet(sc.command) /\ ~IsSet(sc.url)
         /\ cfg' = [cfg EXCEPT ![c] = sc]
    /\ entry' = [entry EXCEPT ![c] = "main"]
    /\ ShowError(c, "missing_transport", NoExc)
    /\ UNCHANGED seen
    /\ UNCHANGED result
    /\ UnchangedCall /\ UnchangedCache
    /\ UNCHANGED pvars

\* lines 58-104: a command or a url is there; get_mcp_tools is called
ClickConnect(c) ==
    /\ pc[c] = "idle"
    /\ \E sc \in ServerConfigs :
         /\ IsSet(sc.command) \/ IsSet(sc.url)
         /\ cfg' = [cfg EXCEPT ![c] = sc]
    /\ entry' = [entry EXCEPT ![c] = "main"]
    /\ pc' = [pc EXCEPT ![c] = "cache_read"]
    /\ UNCHANGED <<result, ui, seen>>
    /\ UnchangedCall /\ UnchangedCache
    /\ UNCHANGED pvars

\* The sessions other than c that wait for the lock of c's key.
WaitersOf(c) ==
    { d \in Callers \ {c} : pc[d] = "cache_lock" /\ KeyOf(cfg[d]) = KeyOf(cfg[c]) }

\* @st.cache_data (line 81), first look-up without the lock
CacheRead(c) ==
    /\ pc[c] = "cache_read"
    /\ LET k == KeyOf(cfg[c])
       IN IF cache[k].present
          THEN /\ result' = [result EXCEPT ![c] = Returned(cache[k].value)]
               /\ pc' = [pc EXCEPT ![c] = "have_tools"]
               /\ UNCHANGED waiting
          ELSE /\ pc' = [pc EXCEPT ![c] = "cache_lock"]
               /\ waiting' = [waiting EXCEPT ![c] = (lock[k] # 0)]
               /\ UNCHANGED result
    /\ UNCHANGED <<entry, cfg, ui, cache, lock, sawFailure, seen>>
    /\ UnchangedCall
    /\ UNCHANGED pvars

\* A cache whose misses compute without waiting for the key's lock.
CacheLockNoWait(c) ==
    /\ pc[c] = "cache_lock"
    /\ lock' = [lock EXCEPT ![KeyOf(cfg[c])] = c]
    /\ waiting' = [d \in Callers |-> waiting[d] \/ d \in WaitersOf(c)]
    /\ pc' = [pc EXCEPT ![c] = "cache_recheck"]
    /\ UNCHANGED <<entry, cfg, result, ui, cache, sawFailure, seen>>
    /\ UnchangedCall
    /\ UNCHANGED pvars

\* @st.cache_data: a miss takes the key's compute lock
CacheLock(c) ==
    /\ pc[c] = "cache_lock"
    /\ lock[KeyOf(cfg[c])] = 0
    /\ lock' = [lock EXCEPT ![KeyOf(cfg[c])] = c]
    /\ waiting' = [d \in Callers |-> waiting[d] \/ d \in WaitersOf(c)]
    /\ pc' = [pc EXCEPT ![c] = "cache_recheck"]
    /\ UNCHANGED <<entry, cfg, result, ui, cache, sawFailure, seen>>
    /\ UnchangedCall
    /\ UNCHANGED pvars

\* @st.cache_data: second look-up under the lock; on a miss the body of
\* get_mcp_tools runs (lines 86-97)
CacheRecheck(c) ==
    /\ pc[c] = "cache_recheck"
    /\ LET k == KeyOf(cfg[c])
       IN IF cache[k].present
          THEN /\ result' = [result EXCEPT ![c] = Returned(cache[k].value)]
               /\ lock' = [lock EXCEPT ![k] = 0]
               /\ pc' = [pc EXCEPT ![c] = "have_tools"]
               /\ UNCHANGED params
          ELSE /\ params' = [params EXCEPT ![c] =
                    IF k[2] # ""
                    THEN [NoParams EXCEPT !.url = k[2]]
                    ELSE [command |-> k[1], args |-> "[]", env |-> "{}",
                          url |-> NONE]]
               /\ pc' = [pc EXCEPT ![c] = "gnt_entry"]
               /\ UNCHANGED <<result, lock>>
    /\ UNCHANGED <<entry, cfg, ui, cache, waiting, sawFailure, seen>>
    /\ UNCHANGED <<tkind, transport, session, log, exc>>
    /\ UNCHANGED pvars

\* get_mcp_tools returned: the value is cached, the lock released (line 99)
CacheStore(c) ==
    /\ entry[c] = "main"
    /\ pc[c] = "returned"
    /\ cache' = [cache EXCEPT ![KeyOf(cfg[c])] =
                    [present |-> TRUE, value |-> result[c].value]]
    /\ lock' = [lock EXCEPT ![KeyOf(cfg[c])] = 0]
    /\ pc' = [pc EXCEPT ![c] = "have_tools"]
    /\ UNCHANGED <<entry, cfg, result, ui, waiting, sawFailure, seen>>
    /\ UnchangedCall
    /\ UNCHANGED pvars

\* A handler that swallows the exception and goes on with no tools.
FetchRaisedSwallowed(c) ==
    /\ entry[c] = "main"
    /\ pc[c] = "raised"
    /\ lock' = [lock EXCEPT ![KeyOf(cfg[c])] = 0]
    /\ sawFailure' = [d \in Callers |-> sawFailure[d] \/ d \in WaitersOf(c)]
    /\ pc' = [pc EXCEPT ![c] = "have_tools"]
    /\ UNCHANGED <<entry, cfg, result, ui, cache, waiting, seen>>
    /\ UnchangedCall
    /\ UNCHANGED pvars

\* get_mcp_tools raised: nothing is cached, the lock is released, and the
\* exception reaches the handler's except clause (lines 147-149)
FetchRaised(c) ==
    /\ entry[c] = "main"
    /\ pc[c] = "raised"
    /\ lock' = [lock EXCEPT ![KeyOf(cfg[c])] = 0]
    /\ sawFailure' = [d \in Callers |-> sawFailure[d] \/ d \in WaitersOf(c)]
    /\ ShowError(c, "exception", result[c].err)
    /\ UNCHANGED <<entry, cfg, result, cache, waiting, seen>>
    /\ UnchangedCall
    /\ UNCHANGED pvars

\* lines 122-131: convert_to_openapi(tools_json=json.dumps(tools), ...)
convert_to_openapi(tools, srv_name) ==
    convert_tools_to_openapi(JsonLoads(JsonDumpsCompact(PyList(tools))).xs,
                             srv_name)

\* lines 106-143: convert_to_openapi, generate_swagger_html, components.html
RenderPage(c) ==
    /\ pc[c] = "have_tools"
    /\ LET openapi_spec == convert_to_openapi(result[c].value, ServerName)
           html_content == generate_swagger_html(openapi_spec,
                                                 ServerName \o T(" Tools"))
       IN ui' = [ui EXCEPT ![c].converted = TRUE, ![c].rendered = TRUE,
                           ![c].page = html_content]
    /\ pc' = [pc EXCEPT ![c] = "done"]
    /\ waiting' = [waiting EXCEPT ![c] = FALSE]
    /\ sawFailure' = [sawFailure EXCEPT ![c] = FALSE]
    /\ UNCHANGED <<entry, cfg, result, seen, cache, lock>>
    /\ UnchangedCall
    /\ UNCHANGED pvars

\* The script run is over; the session waits for the next click.
ScriptEnd(c) ==
    /\ entry[c] = "main"
    /\ pc[c] = "done"
    /\ pc' = [pc EXCEPT ![c] = "idle"]
    /\ entry' = [entry EXCEPT ![c] = "none"]
    /\ cfg' = [cfg EXCEPT ![c] = NoConfig]
    /\ params' = [params EXCEPT ![c] = NoParams]
    /\ tkind' = [tkind EXCEPT ![c] = "none"]
    /\ transport' = [transport EXCEPT ![c] = "none"]
    /\ session' = [session EXCEPT ![c] = "none"]
    /\ log' = [log EXCEPT ![c] = <<>>]
    /\ exc' = [exc EXCEPT ![c] = NoExc]
    /\ result' = [result EXCEPT ![c] = NoResult]
    /\ ui' = [ui EXCEPT ![c] = NoUi]
    /\ waiting' = [waiting EXCEPT ![c] = FALSE]
    /\ sawFailure' = [sawFailure EXCEPT ![c] = FALSE]
    /\ UNCHANGED <<cache, lock, seen>>
    /\ UNCHANGED pvars

----------------------------------------------------------------------------
(* src/src/mcp_client.py: get_normalized_tools                             *)

\* The part of the call that failed, as the claims name it: the transport
\* or the handshake, or the catalog request.
FailureClass(e) ==
    IF e = Cause("list_tools") THEN "catalog" ELSE "connection"

\* A direct call of MCPClient.get_normalized_tools(command, args, env, url)
CallGetNormalizedTools(c) ==
    /\ pc[c] = "idle"
    /\ entry' = [entry EXCEPT ![c] = "gnt"]
    /\ \E p \in ParamSets : params' = [params EXCEPT ![c] = p]
    /\ pc' = [pc EXCEPT ![c] = "gnt_entry"]
    /\ UNCHANGED <<cfg, tkind, transport, session, log, exc, result, ui, seen>>
    /\ UnchangedCache
    /\ UNCHANGED pvars

\* A choice of transport without the final else: stdio unless a url is given.
GntSelectNoCheck(c) ==
    /\ pc[c] = "gnt_entry"
    /\ tkind' = [tkind EXCEPT ![c] = IF IsSet(params[c].url) THEN "http" ELSE "stdio"]
    /\ pc' = [pc EXCEPT ![c] = "open_transport"]
    /\ waiting' = [waiting EXCEPT ![c] = FALSE]
    /\ sawFailure' = [sawFailure EXCEPT ![c] = FALSE]
    /\ UNCHANGED <<entry, cfg, params, transport, session, log, exc, ui>>
    /\ UNCHANGED <<result, seen, cache, lock>>
    /\ UNCHANGED pvars

\* A choice of transport that tests the command before the url.
GntSelectCommandFirst(c) ==
    /\ pc[c] = "gnt_entry"
    /\ LET p == params[c]
       IN IF IsSet(p.command) /\ p.args # NONE /\ p.env # NONE
          THEN /\ tkind' = [tkind EXCEPT ![c] = "stdio"]
               /\ pc' = [pc EXCEPT ![c] = "open_transport"]
               /\ UNCHANGED <<result, seen>>
          ELSE IF IsSet(p.url)
          THEN /\ tkind' = [tkind EXCEPT ![c] = "http"]
               /\ pc' = [pc EXCEPT ![c] = "open_transport"]
               /\ UNCHANGED <<result, seen>>
          ELSE /\ result' = [result EXCEPT ![c] = Raised(GntValueError)]
               /\ pc' = [pc EXCEPT ![c] = "raised"]
               /\ seen' = seen \cup {<<"config", ErrorKind(GntValueError)>>}
               /\ UNCHANGED tkind
    /\ waiting' = [waiting EXCEPT ![c] = FALSE]
    /\ sawFailure' = [sawFailure EXCEPT ![c] = FALSE]
    /\ UNCHANGED <<entry, cfg, params, transport, session, log, exc, ui>>
    /\ UNCHANGED <<cache, lock>>
    /\ UNCHANGED pvars

\* lines 85, 96, 109-112: the choice of the transport
GntSelect(c) ==
    /\ pc[c] = "gnt_entry"
    /\ LET p == params[c]
       IN IF IsSet(p.url)
          THEN /\ tkind' = [tkind EXCEPT ![c] = "http"]
               /\ pc' = [pc EXCEPT ![c] = "open_transport"]
               /\ UNCHANGED <<result, seen>>
          ELSE IF IsSet(p.command) /\ p.args # NONE /\ p.env # NONE
          THEN /\ tkind' = [tkind EXCEPT ![c] = "stdio"]
               /\ pc' = [pc EXCEPT ![c] = "open_transport"]
               /\ UNCHANGED <<result, seen>>
          ELSE /\ result' = [result EXCEPT ![c] = Raised(GntValueError)]
               /\ pc' = [pc EXCEPT ![c] = "raised"]
               /\ seen' = seen \cup {<<"config", ErrorKind(GntValueError)>>}
               /\ UNCHANGED tkind
    /\ waiting' = [waiting EXCEPT ![c] = FALSE]
    /\ sawFailure' = [sawFailure EXCEPT ![c] = FALSE]
    /\ UNCHANGED <<entry, cfg, params, transport, session, log, exc, ui>>
    /\ UNCHANGED <<cache, lock>>
    /\ UNCHANGED pvars

\* lines 93-94 / 106-107: except Exception as e: raise RuntimeError(...);
\* the exception leaves get_normalized_tools
GntRaise(c, e) ==
    /\ result' = [result EXCEPT ![c] = Raised(GntError(tkind[c], e))]
    /\ seen' = IF entry[c] = "gnt"
               THEN seen \cup {<<FailureClass(e), ErrorKind(GntError(tkind[c], e))>>}
               ELSE seen
    /\ exc' = [exc EXCEPT ![c] = NoExc]
    /\ pc' = [pc EXCEPT ![c] = "raised"]

\* lines 88 / 101: async with streamablehttp_client(url) / stdio_client(...)
OpenTransport(c) ==
    /\ pc[c] = "open_transport"
    /\ \E ok \in BOOLEAN :
         IF ok
         THEN /\ transport' = [transport EXCEPT ![c] = "open"]
              /\ log' = [log EXCEPT ![c] = Append(@, "transport.open")]
              /\ pc' = [pc EXCEPT ![c] = "enter_session"]
              /\ UNCHANGED <<exc, result, seen>>
         ELSE /\ GntRaise(c, Cause("connect"))
              /\ UNCHANGED <<transport, log>>
    /\ UNCHANGED <<entry, cfg, params, tkind, session, ui>>
    /\ UnchangedCache
    /\ UNCHANGED pvars

\* lines 89 / 102: async with ClientSession(read, write) as session
EnterSession(c) ==
    /\ pc[c] = "enter_session"
    /\ \E ok \in BOOLEAN :
         IF ok
         THEN /\ session' = [session EXCEPT ![c] = "open"]
              /\ log' = [log EXCEPT ![c] = Append(@, "session.open")]
              /\ pc' = [pc EXCEPT ![c] = "initialize"]
              /\ UNCHANGED exc
         ELSE /\ exc' = [exc EXCEPT ![c] = Cause("session")]
              /\ pc' = [pc EXCEPT ![c] = "exit_transport"]
              /\ UNCHANGED <<session, log>>
    /\ UNCHANGED <<entry, cfg, params, tkind, transport, result, ui, seen>>
    /\ UnchangedCache
    /\ UNCHANGED pvars

\* A handshake written without the with blocks: a failure raises at once
\* and releases nothing.
InitializeNoRelease(c) ==
    /\ pc[c] = "initialize"
    /\ \E ok \in BOOLEAN :
         IF ok
         THEN /\ log' = [log EXCEPT ![c] = Append(@, "initialize.ok")]
              /\ pc' = [pc EXCEPT ![c] = "list_tools"]
              /\ UNCHANGED <<exc, result, seen>>
         ELSE /\ log' = [log EXCEPT ![c] = Append(@, "initialize.failed")]
              /\ GntRaise(c, Cause("initialize"))
    /\ UNCHANGED <<entry, cfg, params, tkind, transport, session, ui>>
    /\ UnchangedCache
    /\ UNCHANGED pvars

\* lines 90 / 103: await session.initialize()
Initialize(c) ==
    /\ pc[c] = "initialize"
    /\ \E ok \in BOOLEAN :
         IF ok
         THEN /\ log' = [log EXCEPT ![c] = Append(@, "initialize.ok")]
              /\ pc' = [pc EXCEPT ![c] = "list_tools"]
              /\ UNCHANGED exc
         ELSE /\ log' = [log EXCEPT ![c] = Append(@, "initialize.failed")]
              /\ exc' = [exc EXCEPT ![c] = Cause("initialize")]
              /\ pc' = [pc EXCEPT ![c] = "exit_session"]
    /\ UNCHANGED <<entry, cfg, params, tkind, transport, session, result, ui, seen>>
    /\ UnchangedCache
    /\ UNCHANGED pvars

\* lines 91-92 / 104-105: await session.list_tools(), and the value of the
\* return statement, computed before the with blocks are left
ListTools(c) ==
    /\ pc[c] = "list_tools"
    /\ \E ok \in BOOLEAN :
         IF ok
         THEN /\ log' = [log EXCEPT ![c] = Append(@, "list_tools.ok")]
              /\ result' = [result EXCEPT ![c] =
                              Returned(normalize_tool_info(ProviderTools))]
              /\ UNCHANGED exc
         ELSE /\ log' = [log EXCEPT ![c] = Append(@, "list_tools.failed")]
              /\ exc' = [exc EXCEPT ![c] = Cause("list_tools")]
              /\ UNCHANGED result
    /\ pc' = [pc EXCEPT ![c] = "exit_session"]
    /\ UNCHANGED <<entry, cfg, params, tkind, transport, session, ui, seen>>
    /\ UnchangedCache
    /\ UNCHANGED pvars

\* leaving `async with ClientSession(...)`, by return or by exception
ExitSession(c) ==
    /\ pc[c] = "exit_session"
    /\ session' = [session EXCEPT ![c] = "closed"]
    /\ log' = [log EXCEPT ![c] = Append(@, "session.close")]
    /\ pc' = [pc EXCEPT ![c] = "exit_transport"]
    /\ UNCHANGED <<entry, cfg, params, tkind, transport, exc, result, ui, seen>>
    /\ UnchangedCache
    /\ UNCHANGED pvars

\* leaving `async with streamablehttp_client(...)` / `stdio_client(...)`:
\* the call returns, or the exception in flight reaches the except clause
ExitTransport(c) ==
    /\ pc[c] = "exit_transport"
    /\ transport' = [transport EXCEPT ![c] = "closed"]
    /\ log' = [log EXCEPT ![c] = Append(@, "transport.close")]
    /\ IF exc[c] = NoExc
       THEN /\ pc' = [pc EXCEPT ![c] = "returned"]
            /\ UNCHANGED <<exc, result, seen>>
       ELSE GntRaise(c, exc[c])
    /\ UNCHANGED <<entry, cfg, params, tkind, session, ui>>
    /\ UnchangedCache
    /\ UNCHANGED pvars

----------------------------------------------------------------------------
(* src/src/mcp_client.py: connect_stdio, connect_http and get_tools        *)

\* A direct call of connect_stdio (kind "stdio") or connect_http ("http")
CallConnect(c) ==
    /\ pc[c] = "idle"
    /\ \E kind \in {"stdio", "http"} :
         /\ entry' = [entry EXCEPT ![c] = "connect_" \o kind]
         /\ tkind' = [tkind EXCEPT ![c] = kind]
    /\ pc' = [pc EXCEPT ![c] = "h_open"]
    /\ UNCHANGED <<cfg, params, transport, session, log, exc, result, ui, seen>>
    /\ UnchangedCache
    /\ UNCHANGED pvars

\* lines 21 / 34: await stdio_client(...).__aenter__()
HelperOpenTransport(c) ==
    /\ pc[c] = "h_open"
    /\ \E ok \in BOOLEAN :
         IF ok
         THEN /\ transport' = [transport EXCEPT ![c] = "open"]
              /\ log' = [log EXCEPT ![c] = Append(@, "transport.open")]
              /\ pc' = [pc EXCEPT ![c] = "h_session"]
              /\ UNCHANGED result
         ELSE /\ result' = [result EXCEPT ![c] = Raised(Cause("connect"))]
              /\ pc' = [pc EXCEPT ![c] = "raised"]
              /\ UNCHANGED <<transport, log>>
    /\ UNCHANGED <<entry, cfg, params, tkind, session, exc, ui, seen>>
    /\ UnchangedCache
    /\ UNCHANGED pvars

\* lines 22-23 / 35-36: await session.__aenter__(); nothing is released
\* when it raises
HelperEnterSession(c) ==
    /\ pc[c] = "h_session"
    /\ \E ok \in BOOLEAN :
         IF ok
         THEN /\ session' = [session EXCEPT ![c] = "open"]
              /\ log' = [log EXCEPT ![c] = Append(@, "session.open")]
              /\ pc' = [pc EXCEPT ![c] = "h_initialize"]
              /\ UNCHANGED result
         ELSE /\ result' = [result EXCEPT ![c] = Raised(Cause("session"))]
              /\ pc' = [pc EXCEPT ![c] = "raised"]
              /\ UNCHANGED <<session, log>>
    /\ UNCHANGED <<entry, cfg, params, tkind, transport, exc, ui, seen>>
    /\ UnchangedCache
    /\ UNCHANGED pvars

\* lines 26-28 / 39-41: await session.initialize(); return session
HelperInitialize(c) ==
    /\ pc[c] = "h_initialize"
    /\ \E ok \in BOOLEAN :
         IF ok
         THEN /\ log' = [log EXCEPT ![c] = Append(@, "initialize.ok")]
              /\ pc' = [pc EXCEPT ![c] = "h_connected"]
              /\ UNCHANGED result
         ELSE /\ log' = [log EXCEPT ![c] = Append(@, "initialize.failed")]
              /\ result' = [result EXCEPT ![c] = Raised(Cause("initialize"))]
              /\ pc' = [pc EXCEPT ![c] = "raised"]
    /\ UNCHANGED <<entry, cfg, params, tkind, transport, session, exc, ui, seen>>
    /\ UnchangedCache
    /\ UNCHANGED pvars

\* lines 44-50: get_tools(session) on the session a helper returned
GetTools(c) ==
    /\ pc[c] = "h_connected"
    /\ \E ok \in BOOLEAN :
         IF ok
         THEN /\ log' = [log EXCEPT ![c] = Append(@, "list_tools.ok")]
              /\ result' = [result EXCEPT ![c] = Returned(ProviderTools)]
              /\ pc' = [pc EXCEPT ![c] = "returned"]
         ELSE /\ log' = [log EXCEPT ![c] = Append(@, "list_tools.failed")]
              /\ result' = [result EXCEPT ![c] =
                              Raised(GetToolsError(Cause("list_tools")))]
              /\ pc' = [pc EXCEPT ![c] = "raised"]
    /\ UNCHANGED <<entry, cfg, params, tkind, transport, session, exc, ui, seen>>
    /\ UnchangedCache
    /\ UNCHANGED pvars

\* The direct caller has its result or its exception; it may call again.
CallEnd(c) ==
    /\ entry[c] \in {"gnt", "connect_stdio", "connect_http"}
    /\ pc[c] \in {"returned", "raised"}
    /\ pc' = [pc EXCEPT ![c] = "idle"]
    /\ entry' = [entry EXCEPT ![c] = "none"]
    /\ params' = [params EXCEPT ![c] = NoParams]
    /\ tkind' = [tkind EXCEPT ![c] = "none"]
    /\ transport' = [transport EXCEPT ![c] = "none"]
    /\ session' = [session EXCEPT ![c] = "none"]
    /\ log' = [log EXCEPT ![c] = <<>>]
    /\ exc' = [exc EXCEPT ![c] = NoExc]
    /\ result' = [result EXCEPT ![c] = NoResult]
    /\ UNCHANGED <<cfg, ui, seen>>
    /\ UnchangedCache
    /\ UNCHANGED pvars

----------------------------------------------------------------------------
(* Specifications *)

\* The steps of get_normalized_tools, whoever called it.
Fetch(c) ==
    \/ GntSelect(c)
    \/ OpenTransport(c)
    \/ EnterSession(c)
    \/ Initialize(c)
    \/ ListTools(c)
    \/ ExitSession(c)
    \/ ExitTransport(c)

\* One script run of a session, from the click to the page or the error.
Handler(c) ==
    \/ ClickInvalidJson(c)
    \/ ClickEmptyConfig(c)
    \/ ClickMissingTransport(c)
    \/ ClickConnect(c)
    \/ CacheRead(c)
    \/ CacheLock(c)
    \/ CacheRecheck(c)
    \/ CacheStore(c)
    \/ FetchRaised(c)
    \/ RenderPage(c)
    \/ ScriptEnd(c)

\* Direct use of the MCPClient functions.
Direct(c) ==
    \/ CallGetNormalizedTools(c)
    \/ CallConnect(c)
    \/ HelperOpenTransport(c)
    \/ HelperEnterSession(c)
    \/ HelperInitialize(c)
    \/ GetTools(c)
    \/ CallEnd(c)

\* Streamlit sessions, each on its own script thread, sharing the cache.
Next == \E c \in Callers : Handler(c) \/ Fetch(c)

Init == CInit /\ POff

Spec == Init /\ [][Next]_vars

\* One caller that uses every entry point: the handler and the client's
\* functions.
NextClient == Handler(1) \/ Fetch(1) \/ Direct(1)

SpecClient == Init /\ [][NextClient]_vars

\* The converter and the renderer on every catalog of ToolLists.
InitPipeline == CInit /\ PInit

SpecPipeline == InitPipeline /\ [][PNext]_vars

----------------------------------------------------------------------------
(* Claims about the client and the handler *)

\* The calls of get_normalized_tools: direct ones, and the handler's.
IsFetchCall(c) == entry[c] \in {"main", "gnt"}

\* The control points from the call of get_normalized_tools to the moment
\* its caller has the result or the exception.
FetchPcs ==
    {"gnt_entry", "open_transport", "enter_session", "initialize",
     "list_tools", "exit_session", "exit_transport", "returned", "raised"}

\* Neither a command nor a url: in the configuration the handler read, or
\* in the arguments of a direct call.
NoTransportGiven(c) ==
    \/ /\ entry[c] = "main"
       /\ cfg[c].json = "server"
       /\ ~IsSet(cfg[c].command) /\ ~IsSet(cfg[c].url)
    \/ /\ entry[c] = "gnt"
       /\ ~IsSet(params[c].command) /\ ~IsSet(params[c].url)

\* C2: with neither a command nor a url the fetch ends in a configuration
\* error and no transport is ever opened: the handler shows the error and
\* stops before get_mcp_tools, and get_normalized_tools raises ValueError
\* from its first statement.
C2_NoTransportWithoutSelector ==
    \A c \in Callers :
        NoTransportGiven(c) =>
            /\ transport[c] = "none" /\ session[c] = "none" /\ log[c] = <<>>
            /\ entry[c] = "main" =>
                 /\ pc[c] = "done"
                 /\ ui[c].error = "missing_transport"
                 /\ ui[c].page = <<>>
            /\ entry[c] = "gnt" =>
                 \/ pc[c] = "gnt_entry"
                 \/ pc[c] = "raised" /\ result[c] = Raised(GntValueError)

\* Reached: a direct call without command and url has raised ValueError.
C2_Witness ==
    \E c \in Callers :
        /\ entry[c] = "gnt" /\ NoTransportGiven(c)
        /\ pc[c] = "raised" /\ result[c].err.type = "ValueError"

\* C3: in get_normalized_tools, on both transports, whatever was opened is
\* closed when the call returns or raises (after success, after a failed
\* initialize, after a failed list_tools), and the session is closed
\* before the transport that carries it.
C3_ScopedRelease ==
    \A c \in Callers :
        IsFetchCall(c) =>
            /\ pc[c] \in {"returned", "raised", "have_tools", "done"} =>
                 /\ transport[c] \in {"none", "closed"}
                 /\ session[c] \in {"none", "closed"}
            /\ transport[c] = "closed" => session[c] # "open"
            /\ session[c] = "open" => transport[c] = "open"

\* Reached: a direct call has raised after a failed initialize, with its
\* session and its transport closed.
C3_Witness ==
    \E c \in Callers :
        /\ entry[c] = "gnt" /\ pc[c] = "raised"
        /\ \E i \in 1..Len(log[c]) : log[c][i] = "initialize.failed"
        /\ transport[c] = "closed" /\ session[c] = "closed"

\* C4: a fetch that fails at the transport or the handshake and a fetch
\* that fails at list_tools reach the caller as two distinguishable kinds
\* of error.
C4_FailuresDistinguishable ==
    \A a \in seen : \A b \in seen :
        (a[1] = "connection" /\ b[1] = "catalog") => a[2] # b[2]

\* C5: when entering the session or initialize fails in connect_stdio or
\* connect_http, the transport and the session the helper opened are
\* closed before the error reaches the caller.
C5_HelpersReleaseOnFailure ==
    \A c \in Callers :
        (/\ entry[c] \in {"connect_stdio", "connect_http"}
         /\ pc[c] = "raised"
         /\ result[c].err \in {Cause("session"), Cause("initialize")}) =>
            /\ transport[c] # "open"
            /\ session[c] # "open"

IsPrefix(a, b) == Len(a) <= Len(b) /\ a = SubSeq(b, 1, Len(a))

\* The awaits of one call in the only orders the claim allows.
FetchOrders ==
    { <<"transport.open", "session.open", "initialize.ok", "list_tools.ok",
        "session.close", "transport.close">>,
      <<"transport.open", "session.open", "initialize.ok", "list_tools.failed",
        "session.close", "transport.close">>,
      <<"transport.open", "session.open", "initialize.failed",
        "session.close", "transport.close">>,
      <<"transport.open", "transport.close">> }

\* C10: a call of get_normalized_tools opens at most one transport, HTTP
\* whenever a url is given (also when a command is given too) and stdio
\* otherwise, and on it opens the transport, opens the session,
\* initializes, lists the tools and closes, in this order, each at most
\* once, list_tools only after initialize has succeeded.
C10_OneTransportInOrder ==
    \A c \in Callers :
        IsFetchCall(c) =>
            /\ \E o \in FetchOrders : IsPrefix(log[c], o)
            /\ tkind[c] # "none" =>
                 tkind[c] = (IF IsSet(params[c].url) THEN "http" ELSE "stdio")
            /\ transport[c] # "none" => tkind[c] # "none"

\* Reached: a direct call given a command and a url has returned after
\* the whole sequence on the HTTP transport.
C10_Witness ==
    \E c \in Callers :
        /\ entry[c] = "gnt" /\ pc[c] = "returned"
        /\ IsSet(params[c].command) /\ IsSet(params[c].url)
        /\ tkind[c] = "http"
        /\ Len(log[c]) = 6

\* The sessions inside get_mcp_tools' fetch for key k.
Fetching(k) ==
    { c \in Callers : entry[c] = "main" /\ pc[c] \in FetchPcs /\ KeyOf(cfg[c]) = k }

AtMostOneInFlight == \A k \in CacheKeys : Cardinality(Fetching(k)) <= 1

\* C8 as claimed: at most one fetch per key is in flight, and a caller
\* that found the key's fetch in progress gets that fetch's result and
\* never starts a fetch of its own.
C8_SingleFlight ==
    /\ AtMostOneInFlight
    /\ \A c \in Callers : waiting[c] => pc[c] # "gnt_entry"

\* C8 as amended: at most one fetch per key is in flight; a caller that
\* found the key's fetch in progress gets the cached result of that fetch
\* when it succeeds, and starts a fetch of its own only after a fetch it
\* waited for has raised (an exception is not cached); no fetch starts for
\* a key that has a cached result.
C8_SingleFlightUnlessRaised ==
    /\ AtMostOneInFlight
    /\ \A c \in Callers :
         /\ (waiting[c] /\ pc[c] = "gnt_entry") => sawFailure[c]
         /\ (entry[c] = "main" /\ pc[c] \in FetchPcs) =>
              /\ ~cache[KeyOf(cfg[c])].present
              /\ lock[KeyOf(cfg[c])] = c
         /\ pc[c] = "have_tools" =>
              /\ cache[KeyOf(cfg[c])].present
              /\ result[c] = Returned(cache[KeyOf(cfg[c])].value)

\* Reached: a session that found the fetch in progress has the cached
\* result, without a fetch of its own.
C8_Witness ==
    \E c \in Callers :
        /\ waiting[c] /\ ~sawFailure[c]
        /\ pc[c] = "have_tools" /\ log[c] = <<>>

ConfigRejected(c) ==
    \/ cfg[c].json \in {"invalid", "empty"}
    \/ cfg[c].json = "server" /\ ~IsSet(cfg[c].command) /\ ~IsSet(cfg[c].url)

\* C9: in the handler, when the configuration is rejected or the fetch
\* raises, neither the conversion nor the rendering runs and no page is
\* displayed; the error is shown instead (the raised exception itself),
\* and nothing swallows it.
C9_NoPageAfterError ==
    \A c \in Callers :
        entry[c] = "main" =>
            /\ (ConfigRejected(c) \/ result[c].kind = "error") =>
                 /\ ~ui[c].converted /\ ~ui[c].rendered /\ ui[c].page = <<>>
                 /\ pc[c] \notin {"have_tools", "idle"}
                 /\ pc[c] = "done" => ui[c].error # "none"
            /\ (pc[c] = "done" /\ result[c].kind = "error") =>
                 /\ ui[c].error = "exception"
                 /\ ui[c].exception = result[c].err
            /\ ui[c].error # "none" => ui[c].page = <<>>

\* Reached: a fetch has raised and the handler shows the exception.
C9_Witness ==
    \E c \in Callers :
        /\ entry[c] = "main" /\ pc[c] = "done"
        /\ result[c].kind = "error" /\ ui[c].error = "exception"

=============================================================================
